---------------------------- MODULE Spec2Model ----------------------------
(***************************************************************************)
(* Model of make_file_report.py: the filename normaliser clean_filename,   *)
(* the presence-matrix builder create_file_matrix and the column filter    *)
(* filter_matrix.  Python str values are TLA+ strings; a character is a    *)
(* string of length one.                                                   *)
(***************************************************************************)
EXTENDS Integers, Sequences, FiniteSets, TLC

VARIABLES
    filename,     \* clean_filename's argument
    key,          \* clean_filename(filename)
    number,       \* the Number cell computed from key (line 112)
    rekey,        \* clean_filename(key + ".pdf")
    cpc,          \* position of the single-filename run
    folder_dict,  \* the listing handed to create_file_matrix
    matrix,       \* the DataFrame held by __main__
    error,        \* the exception that ended the run, "none" if none
    pc            \* position of __main__

cvars == <<filename, key, number, rekey, cpc>>
mvars == <<folder_dict, matrix, error, pc>>
vars == <<filename, key, number, rekey, cpc, folder_dict, matrix, error, pc>>

---------------------------------------------------------------------------
(* Characters and the str methods the program uses.                        *)

\* The Python slice s[m-1:n]: characters m..n of s, cut to what s holds.
Slice(s, m, n) ==
    IF m > n \/ m > Len(s) THEN ""
    ELSE SubSeq(s, m, IF n > Len(s) THEN Len(s) ELSE n)

\* The i-th character of s, "" when s has none.
At(s, i) == Slice(s, i, i)

\* What \d matches (the ASCII part of it).
Digits == {"0", "1", "2", "3", "4", "5", "6", "7", "8", "9"}

\* What \s matches and str.strip() strips (the part of it the inputs use).
Whitespace == {" ", "\t", "\n"}

UpperCase == "ABCDEFGHIJKLMNOPQRSTUVWXYZ"
LowerCase == "abcdefghijklmnopqrstuvwxyz"

IsUpper(c) == \E i \in 1..Len(UpperCase) : At(UpperCase, i) = c
IsLower(c) == \E i \in 1..Len(LowerCase) : At(LowerCase, i) = c

\* str.lower() of one character.
LowerChar(c) ==
    IF IsUpper(c)
    THEN At(LowerCase, CHOOSE i \in 1..Len(UpperCase) : At(UpperCase, i) = c)
    ELSE c

RECURSIVE Lower(_)
\* str.lower()
Lower(s) ==
    IF s = "" THEN "" ELSE LowerChar(At(s, 1)) \o Lower(Slice(s, 2, Len(s)))

RECURSIVE Skip(_, _, _)
\* The first index >= i of s whose character is not in class (Len(s)+1 if
\* none): where a greedy run  [class]*  starting at i ends.
Skip(s, i, class) ==
    IF i <= Len(s) /\ At(s, i) \in class THEN Skip(s, i + 1, class) ELSE i

RECURSIVE Find(_, _, _)
\* The first index >= i of s whose character is in class (Len(s)+1 if none).
Find(s, i, class) ==
    IF i <= Len(s) /\ At(s, i) \notin class THEN Find(s, i + 1, class) ELSE i

RECURSIVE Remove(_, _)
\* re.sub(r"[class]", '', s)
Remove(s, class) ==
    IF s = "" THEN ""
    ELSE (IF At(s, 1) \in class THEN "" ELSE At(s, 1))
         \o Remove(Slice(s, 2, Len(s)), class)

RECURSIVE Replace(_, _, _)
\* str.replace(old, new) for a one-character old
Replace(s, old, new) ==
    IF s = "" THEN ""
    ELSE (IF At(s, 1) = old THEN new ELSE At(s, 1))
         \o Replace(Slice(s, 2, Len(s)), old, new)

\* str.strip(): leading and trailing whitespace removed
Strip(s) ==
    LET first == Skip(s, 1, Whitespace)
        last == CHOOSE j \in 0..Len(s) :
                    /\ j = 0 \/ At(s, j) \notin Whitespace
                    /\ \A k \in (j + 1)..Len(s) : At(s, k) \in Whitespace
    IN Slice(s, first, last)

\* str.rstrip('-'): every trailing hyphen removed
RstripDash(s) ==
    LET last == CHOOSE j \in 0..Len(s) :
                    /\ j = 0 \/ At(s, j) # "-"
                    /\ \A k \in (j + 1)..Len(s) : At(s, k) = "-"
    IN Slice(s, 1, last)

DigitValue(c) ==
    CASE c = "0" -> 0 [] c = "1" -> 1 [] c = "2" -> 2 [] c = "3" -> 3
      [] c = "4" -> 4 [] c = "5" -> 5 [] c = "6" -> 6 [] c = "7" -> 7
      [] c = "8" -> 8 [] c = "9" -> 9

DigitChar(d) == At("0123456789", d + 1)

\* Whether int(s) returns: s is a non-empty run of decimal digits.
IsDecimal(s) == s # "" /\ \A i \in 1..Len(s) : At(s, i) \in Digits

RECURSIVE ParseInt(_)
\* int(s) for a decimal s
ParseInt(s) ==
    IF s = "" THEN 0
    ELSE 10 * ParseInt(Slice(s, 1, Len(s) - 1)) + DigitValue(At(s, Len(s)))

RECURSIVE IntToStr(_)
\* str(n), as the f-string of line 85 renders number
IntToStr(n) ==
    IF n < 10 THEN DigitChar(n) ELSE IntToStr(n \div 10) \o DigitChar(n % 10)

\* str.rsplit('.', 1)[0]: the text before the last '.', all of it if none
RsplitDot(s) ==
    IF \E i \in 1..Len(s) : At(s, i) = "."
    THEN LET last == CHOOSE i \in 1..Len(s) :
                        /\ At(s, i) = "."
                        /\ \A k \in (i + 1)..Len(s) : At(s, k) # "."
         IN Slice(s, 1, last - 1)
    ELSE s

\* Where  .*$  started at index p ends (the first index it leaves), 0 when
\* it cannot match: '.' matches no newline and '$' matches at the end of
\* the string or before a newline that ends it.
DotStarEnd(s, p) ==
    LET q == Find(s, p, {"\n"})
    IN IF q >= Len(s) THEN q ELSE 0

---------------------------------------------------------------------------
(* clean_filename, one operator per statement.                             *)

\* Line 52: re.search(r'^\d+', filename).group(), "" when there is no match.
LeadingDigits(s) == Slice(s, 1, Skip(s, 1, Digits) - 1)

\* Line 61: re.sub(r'^\d+\s*[-_\s]*', '', name)
StripNumberPrefix(name) ==
    LET i == Skip(name, 1, Digits)
        j == Skip(name, i, Whitespace)
        k == Skip(name, j, {"-", "_"} \cup Whitespace)
    IN IF i > 1 THEN Slice(name, k, Len(name)) ELSE name

\* Line 63: re.sub(r"^\d+\s+O'Clock\s+", '', name, flags=re.IGNORECASE)
StripOClock(name) ==
    LET i == Skip(name, 1, Digits)
        j == Skip(name, i, Whitespace)
        k == Skip(name, j + 7, Whitespace)
    IN IF /\ i > 1
          /\ j > i
          /\ j + 6 <= Len(name)
          /\ Lower(Slice(name, j, j + 6)) = "o'clock"
          /\ k > j + 7
       THEN Slice(name, k, Len(name))
       ELSE name

\* Line 67: the alternation (alto\d*|flute|...|NEW), matched ignoring case.
\* alto's \d* is followed by .* and so changes no match.
InstrumentTokens ==
    {"alto", "flute", "drums", "bass", "soprano", "edit", "orig", "concert",
     "new"}

\* Whether one of the tokens matches s at index j.
TokenAt(s, j) ==
    \E t \in InstrumentTokens :
        /\ j + Len(t) - 1 <= Len(s)
        /\ Lower(Slice(s, j, j + Len(t) - 1)) = t

\* Line 67: re.sub(r'\s+(alto\d*|...|NEW).*$', '', name, flags=re.IGNORECASE):
\* the leftmost whitespace run that a token follows, cut from its start.
StripInstrumentSuffix(name) ==
    LET starts == {i \in 1..Len(name) :
                      /\ At(name, i) \in Whitespace
                      /\ TokenAt(name, Skip(name, i, Whitespace))
                      /\ DotStarEnd(name, Skip(name, i, Whitespace)) # 0}
    IN IF starts = {} THEN name
       ELSE LET i == CHOOSE a \in starts : \A b \in starts : a <= b
            IN Slice(name, 1, i - 1)
               \o Slice(name, DotStarEnd(name, Skip(name, i, Whitespace)),
                         Len(name))

\* Line 69: re.sub(r'\s*[\(\-].*$', '', name)
StripParenDash(name) ==
    LET starts == {i \in 1..Len(name) :
                      /\ At(name, Skip(name, i, Whitespace)) \in {"(", "-"}
                      /\ DotStarEnd(name, Skip(name, i, Whitespace) + 1) # 0}
    IN IF starts = {} THEN name
       ELSE LET i == CHOOSE a \in starts : \A b \in starts : a <= b
            IN Slice(name, 1, i - 1)
               \o Slice(name,
                         DotStarEnd(name, Skip(name, i, Whitespace) + 1),
                         Len(name))

\* Line 71: re.sub(r"[''\u2018\u2019,.\d]", '', name); the two curly
\* apostrophes are outside the alphabet of the inputs.
RemovePunctuation(name) == Remove(name, {"'", ",", "."} \cup Digits)

RECURSIVE SplitCamel(_)
\* Line 73: re.sub(r'([a-z])([A-Z])', r'\1 \2', name)
SplitCamel(s) ==
    IF Len(s) < 2 THEN s
    ELSE IF IsLower(At(s, 1)) /\ IsUpper(At(s, 2))
         THEN At(s, 1) \o " " \o SplitCamel(Slice(s, 2, Len(s)))
         ELSE At(s, 1) \o SplitCamel(Slice(s, 2, Len(s)))

RECURSIVE CollapseSpaces(_)
\* Line 75: re.sub(r'\s+', ' ', name)
CollapseSpaces(s) ==
    IF s = "" THEN ""
    ELSE IF At(s, 1) \in Whitespace
         THEN " " \o CollapseSpaces(Slice(s, Skip(s, 1, Whitespace), Len(s)))
         ELSE At(s, 1) \o CollapseSpaces(Slice(s, 2, Len(s)))

\* Lines 59-79: the name part of the key.
CleanName(fname) ==
    LET n1 == RsplitDot(fname)
        n2 == StripNumberPrefix(n1)
        n3 == StripOClock(n2)
        n4 == Replace(n3, "_", " ")
        n5 == StripInstrumentSuffix(n4)
        n6 == StripParenDash(n5)
        n7 == RemovePunctuation(n6)
        n8 == SplitCamel(n7)
        n9 == CollapseSpaces(n8)
        n10 == Strip(RstripDash(Strip(n9)))
    IN Lower(n10)

\* clean_filename without the return of lines 53-54.
clean_filename_NoGuard(fname) ==
    LET name == CleanName(fname)
    IN IF name = "" THEN ""
       ELSE IntToStr(ParseInt(LeadingDigits(fname))) \o " " \o name

\* clean_filename without the return of lines 82-83.
clean_filename_KeepsEmptyName(fname) ==
    LET match == LeadingDigits(fname)
    IN IF match = "" THEN ""
       ELSE IntToStr(ParseInt(match)) \o " " \o CleanName(fname)

\* Lines 50-85.
clean_filename(fname) ==
    LET match == LeadingDigits(fname)
    IN IF match = "" THEN ""
       ELSE LET name == CleanName(fname)
            IN IF name = "" THEN ""
               ELSE IntToStr(ParseInt(match)) \o " " \o name

\* Line 56: the exception int(match.group()) raises, "none" when it returns.
clean_filename_raises(fname) ==
    LET match == LeadingDigits(fname)
    IN IF match # "" /\ ~IsDecimal(match) THEN "ValueError" ELSE "none"

\* Line 112, one row: index.str.split(' ').str[0].astype(int).  The value
\* is the integer, or the exception astype raises.
NumberCell(k) ==
    LET head == Slice(k, 1, Find(k, 1, {" "}) - 1)
    IN IF IsDecimal(head)
       THEN [ok |-> TRUE, value |-> ParseInt(head)]
       ELSE [ok |-> FALSE, value |-> 0]

---------------------------------------------------------------------------
(* One filename through clean_filename, the Number column and a second     *)
(* normalisation of its key.                                               *)

\* The most pieces after the head of a generated filename.
MaxPieces == 3

\* How a generated filename starts: with no number, with a number, with a
\* number that has a leading zero.
Heads == {"", "7", "03"}

\* What follows the head: each separator and punctuation mark the statements
\* of clean_filename look for, a digit, a word in camel case and an
\* instrument token.
Pieces == {" ", "_", "-", ".", "(", "'", "\n", "5", "Bass", "myTune"}

RECURSIVE Concats(_)
\* Every concatenation of at most n pieces.
Concats(n) ==
    IF n = 0 THEN {""}
    ELSE LET shorter == Concats(n - 1)
         IN shorter \cup {p \o x : p \in Pieces, x \in shorter}

\* The filenames of the documented examples.
ExampleNames ==
    {"12_Song_Name_Alto.pdf", "No Number Here.mp3", "7 O'Clock Shadow.wav",
     "03-Title (Live Version).mp3", "10 Take Five alto2 (v3).pdf",
     "7 5 O'Clock Jump.pdf"}

OClockDigits == {"7", "03", "12"}
OClockPhrases == {"O'Clock", "o'clock", "O'CLOCK"}
OClockRests == {"Shadow", "Jump", "blues"}
OClockExts == {".wav", ".pdf"}

\* Filenames of the form "<digits> O'Clock <rest>.<ext>".
OClockName(d, p, r, e) == d \o " " \o p \o " " \o r \o e

OClockNames ==
    {OClockName(d, p, r, e) :
        d \in OClockDigits, p \in OClockPhrases, r \in OClockRests,
        e \in OClockExts}

Filenames ==
    {h \o x : h \in Heads, x \in Concats(MaxPieces)}
        \cup ExampleNames \cup OClockNames

CleanInit ==
    /\ filename \in Filenames
    /\ key = ""
    /\ number = [ok |-> TRUE, value |-> 0]
    /\ rekey = ""
    /\ cpc = "input"

\* clean_filename(filename), lines 50-85.
CleanFilename ==
    /\ cpc = "input"
    /\ IF clean_filename_raises(filename) = "none"
       THEN /\ key' = clean_filename(filename)
            /\ cpc' = "cleaned"
       ELSE /\ key' = key
            /\ cpc' = "raised"
    /\ UNCHANGED <<filename, number, rekey>>

\* Line 112 for the row of a key that survives line 100.
NumberColumn ==
    /\ cpc = "cleaned"
    /\ key # ""
    /\ number' = NumberCell(key)
    /\ cpc' = "numbered"
    /\ UNCHANGED <<filename, key, rekey>>

\* clean_filename applied to the key with a neutral extension.
CleanAgain ==
    /\ cpc = "numbered"
    /\ clean_filename_raises(key \o ".pdf") = "none"
    /\ rekey' = clean_filename(key \o ".pdf")
    /\ cpc' = "recleaned"
    /\ UNCHANGED <<filename, key, number>>

---------------------------------------------------------------------------
(* sorted() on str values.                                                 *)

\* The printable ASCII characters in code-point order: 32 to 95, and 97
\* to 126 (96, the grave accent, occurs in no input).
AsciiTo95 ==
    " !\"#$%&'()*+,-./0123456789:;<=>?@ABCDEFGHIJKLMNOPQRSTUVWXYZ[\\]^_"
AsciiFrom97 == "abcdefghijklmnopqrstuvwxyz{|}~"

\* ord(c)
Ord(c) ==
    IF c = "\t" THEN 9
    ELSE IF c = "\n" THEN 10
    ELSE IF \E i \in 1..Len(AsciiTo95) : At(AsciiTo95, i) = c
    THEN 31 + (CHOOSE i \in 1..Len(AsciiTo95) : At(AsciiTo95, i) = c)
    ELSE 96 + (CHOOSE i \in 1..Len(AsciiFrom97) : At(AsciiFrom97, i) = c)

RECURSIVE StrLess(_, _)
\* a < b on str: by code point, a proper prefix first
StrLess(a, b) ==
    IF b = "" THEN FALSE
    ELSE IF a = "" THEN TRUE
    ELSE IF At(a, 1) = At(b, 1)
         THEN StrLess(Slice(a, 2, Len(a)), Slice(b, 2, Len(b)))
         ELSE Ord(At(a, 1)) < Ord(At(b, 1))

RECURSIVE SortedDescending(_)
\* sorted(S, reverse=True)
SortedDescending(S) ==
    IF S = {} THEN <<>>
    ELSE LET most == CHOOSE x \in S : \A y \in S \ {x} : StrLess(y, x)
         IN <<most>> \o SortedDescending(S \ {most})

RECURSIVE Sorted(_)
\* sorted(S) for a set of str (lines 102-103)
Sorted(S) ==
    IF S = {} THEN <<>>
    ELSE LET least == CHOOSE x \in S : \A y \in S \ {x} : StrLess(x, y)
         IN <<least>> \o Sorted(S \ {least})

---------------------------------------------------------------------------
(* The listing, create_file_matrix and filter_matrix.                      *)

\* Line 119: the column filter_matrix drops.
ExcludedFolder == "VJE MISCELLANEOUS PARTS (VOCAL, VIBRAPHONE, ETC.)"

\* The values a listing holds.  A folder is the dict of its entries, kept as
\* the set of its keys (create_file_matrix reads no value below the top
\* level); a leaf is a GoogleDriveFile; anything else is neither.
FolderValue(names) == [type |-> "dict", keys |-> names]
LeafValue == [type |-> "GoogleDriveFile", keys |-> {}]
OtherValue == [type |-> "other", keys |-> {}]

\* Lines 88-93 with the dict test first: a GoogleDriveFile is a dict too,
\* and none of its keys starts with a digit.
cleaned_dict_LeafAsDict(fd) ==
    [folder \in {t \in DOMAIN fd : fd[t].type \in {"dict", "GoogleDriveFile"}}
        |-> {clean_filename(f) : f \in fd[folder].keys}]

\* Lines 88-93: the folders and the cleaned keys of each.
cleaned_dict(fd) ==
    [folder \in {t \in DOMAIN fd :
                    fd[t].type # "GoogleDriveFile" /\ fd[t].type = "dict"}
        |-> {clean_filename(f) : f \in fd[folder].keys}]

\* Lines 95-100.
all_filenames(cleaned) == (UNION {cleaned[f] : f \in DOMAIN cleaned}) \ {""}

\* A DataFrame: its index, its columns and each column's value per row.
Frame(index, columns, data) ==
    [index |-> index, columns |-> columns, data |-> data]

NoFrame == Frame(<<>>, <<>>, <<>>)

\* The set of a sequence's elements.
Range(seq) == {seq[i] : i \in 1..Len(seq)}

\* Lines 102-108 with isin(all_filenames) at line 106.
PresenceFrameAnyFolder(cleaned, rows) ==
    Frame(Sorted(rows), Sorted(DOMAIN cleaned),
          [folder \in DOMAIN cleaned |->
              [r \in rows |-> IF r \in rows THEN "yes" ELSE "no"]])

\* Lines 102-108: the frame over the sorted keys and the sorted folders,
\* each folder's column set to index.isin(its keys), then True and False
\* replaced by "yes" and "no".
PresenceFrame(cleaned, rows) ==
    Frame(Sorted(rows), Sorted(DOMAIN cleaned),
          [folder \in DOMAIN cleaned |->
              [r \in rows |-> IF r \in cleaned[folder] THEN "yes" ELSE "no"]])

\* Line 112: matrix.insert(0, 'Number', ...).  The result is the frame, or
\* the exception that ends the call: astype(int) on a row whose head is no
\* integer, or insert() of a column name the frame already has.
InsertNumber(df) ==
    IF \E r \in Range(df.index) : ~NumberCell(r).ok
    THEN [error |-> "ValueError: invalid literal for int()", df |-> NoFrame]
    ELSE IF "Number" \in Range(df.columns)
    THEN [error |-> "ValueError: cannot insert Number, already exists",
          df |-> NoFrame]
    ELSE [error |-> "none",
          df |-> Frame(df.index, <<"Number">> \o df.columns,
                       [c \in {"Number"} \cup Range(df.columns) |->
                           IF c = "Number"
                           THEN [r \in Range(df.index) |-> NumberCell(r).value]
                           ELSE df.data[c]])]

\* Lines 95-108.
BuildFrame(cleaned) == PresenceFrame(cleaned, all_filenames(cleaned))

\* Lines 86-114 with the keys of the top-level leaves added to
\* all_filenames.
create_file_matrix_LeafRows(fd) ==
    InsertNumber(
        PresenceFrame(
            cleaned_dict(fd),
            all_filenames(cleaned_dict(fd))
                \cup ({clean_filename(t) : t \in DOMAIN fd} \ {""})))

\* Lines 86-114.
create_file_matrix(fd) == InsertNumber(BuildFrame(cleaned_dict(fd)))

\* Lines 116-120: DataFrame.drop(columns=[...]) raises KeyError for a column
\* the frame does not have.
filter_matrix(df) ==
    IF ExcludedFolder \notin Range(df.columns)
    THEN [error |-> "KeyError", df |-> NoFrame]
    ELSE [error |-> "none",
          df |-> Frame(df.index,
                       SelectSeq(df.columns, LAMBDA c : c # ExcludedFolder),
                       [c \in Range(df.columns) \ {ExcludedFolder} |->
                           df.data[c]])]

\* The most entries a listing holds, folders and their contents together.
MaxEntries == 4

\* Titles of the entries at the top of the listing.
TopTitles == {"BASS", "alto sax", "Number", "3 Tune.pdf", ExcludedFolder}

\* Titles of the entries inside a folder.
EntryNames ==
    {"10 Song.mp3", "10_song_alto.pdf", "2 Other.mp3", "notes.txt", "7.pdf"}

RECURSIVE KeyCount(_, _)
\* The number of entries inside the folders titled in T.
KeyCount(fd, T) ==
    IF T = {} THEN 0
    ELSE LET t == CHOOSE x \in T : TRUE
         IN Cardinality(fd[t].keys) + KeyCount(fd, T \ {t})

\* len of the listing, nested entries included.
Size(fd) == Cardinality(DOMAIN fd) + KeyCount(fd, DOMAIN fd)

\* result[file['title']] = ... (lines 42 and 44): the entry is set.
Put(fd, t, v) == [x \in DOMAIN fd \cup {t} |-> IF x = t THEN v ELSE fd[x]]

MatrixInit ==
    /\ folder_dict = <<>>
    /\ matrix = NoFrame
    /\ error = "none"
    /\ pc = "listing"

\* Line 42 at the top level: a folder is listed, its own listing empty so far.
ListFolder(t) ==
    /\ pc = "listing"
    /\ t \notin DOMAIN folder_dict
    /\ Size(folder_dict) < MaxEntries
    /\ folder_dict' = Put(folder_dict, t, FolderValue({}))
    /\ UNCHANGED <<matrix, error, pc>>

\* Line 44 at the top level: a leaf file is listed.
ListFile(t) ==
    /\ pc = "listing"
    /\ t \notin DOMAIN folder_dict
    /\ Size(folder_dict) < MaxEntries
    /\ folder_dict' = Put(folder_dict, t, LeafValue)
    /\ UNCHANGED <<matrix, error, pc>>

\* Lines 42 and 44 one level down: an entry is listed inside a folder.
ListInFolder(t, f) ==
    /\ pc = "listing"
    /\ t \in DOMAIN folder_dict
    /\ folder_dict[t].type = "dict"
    /\ f \notin folder_dict[t].keys
    /\ Size(folder_dict) < MaxEntries
    /\ folder_dict' =
           Put(folder_dict, t, FolderValue(folder_dict[t].keys \cup {f}))
    /\ UNCHANGED <<matrix, error, pc>>

\* A caller's listing with a value that is neither a dict nor a
\* GoogleDriveFile under a title (the parameter of line 86).
PassOther(t) ==
    /\ pc = "listing"
    /\ t \notin DOMAIN folder_dict
    /\ Size(folder_dict) < MaxEntries
    /\ folder_dict' = Put(folder_dict, t, OtherValue)
    /\ UNCHANGED <<matrix, error, pc>>

\* Line 193: the call returns and matrix is bound, or its exception ends
\* the run.
Returns(res, next) ==
    /\ matrix' = res.df
    /\ error' = res.error
    /\ pc' = IF res.error = "none" THEN next ELSE "failed"

\* Line 193, first half: create_file_matrix(file_list).
CreateFileMatrix ==
    /\ pc = "listing"
    /\ Returns(create_file_matrix(folder_dict), "built")
    /\ UNCHANGED folder_dict

\* Line 193, second half: .pipe(filter_matrix).
FilterMatrix ==
    /\ pc = "built"
    /\ Returns(filter_matrix(matrix), "filtered")
    /\ UNCHANGED folder_dict

---------------------------------------------------------------------------
(* The specifications.                                                     *)

Init ==
    /\ MatrixInit
    /\ filename = ""
    /\ key = ""
    /\ number = [ok |-> TRUE, value |-> 0]
    /\ rekey = ""
    /\ cpc = "idle"

Next ==
    \/ \E t \in TopTitles : ListFolder(t) /\ UNCHANGED cvars
    \/ \E t \in TopTitles : ListFile(t) /\ UNCHANGED cvars
    \/ \E t \in TopTitles : PassOther(t) /\ UNCHANGED cvars
    \/ \E t \in TopTitles, f \in EntryNames :
           ListInFolder(t, f) /\ UNCHANGED cvars
    \/ CreateFileMatrix /\ UNCHANGED cvars
    \/ FilterMatrix /\ UNCHANGED cvars

\* The run of __main__ on a listing.
Spec == Init /\ [][Next]_vars

InitClean ==
    /\ CleanInit
    /\ folder_dict = <<>>
    /\ matrix = NoFrame
    /\ error = "none"
    /\ pc = "idle"

NextClean ==
    \/ CleanFilename /\ UNCHANGED mvars
    \/ NumberColumn /\ UNCHANGED mvars
    \/ CleanAgain /\ UNCHANGED mvars

\* One filename through clean_filename and line 112.
SpecClean == InitClean /\ [][NextClean]_vars

---------------------------------------------------------------------------
(* The properties.                                                         *)

\* The folders of a listing.
Folders(fd) == {t \in DOMAIN fd : fd[t].type = "dict"}

\* The leaf files at the top of a listing.
Leaves(fd) == {t \in DOMAIN fd : fd[t].type = "GoogleDriveFile"}

\* A listing whose every value is a folder or a leaf file.
WellFormed(fd) == \A t \in DOMAIN fd : fd[t].type \in {"dict", "GoogleDriveFile"}

\* The non-empty canonical keys of the entries directly inside folder f.
KeysOf(fd, f) == {clean_filename(n) : n \in fd[f].keys} \ {""}

\* The folder columns of a frame: all but Number.
FolderColumns(df) == Range(df.columns) \ {"Number"}

\* The rows of column f that hold "yes".
YesRows(df, f) == {r \in Range(df.index) : df.data[f][r] = "yes"}

\* C1: in the matrix create_file_matrix returns, the cell of row r and
\* folder column f is "yes" if and only if an entry directly inside f
\* normalizes to r, and "no" otherwise; so column f has as many "yes" cells
\* as f has distinct non-empty keys, and a folder with no recognizable
\* filename is a column of "no".
C1_CellsArePresence ==
    pc = "built" =>
        \A f \in FolderColumns(matrix) :
            /\ f \in Folders(folder_dict)
            /\ \A r \in Range(matrix.index) :
                   matrix.data[f][r] =
                       IF \E n \in folder_dict[f].keys : clean_filename(n) = r
                       THEN "yes" ELSE "no"
            /\ Cardinality(YesRows(matrix, f))
                   = Cardinality(KeysOf(folder_dict, f))
            /\ KeysOf(folder_dict, f) = {} => YesRows(matrix, f) = {}

\* C1 happens: a row with "yes" in the column of the folder that holds its
\* file and "no" in the column of a folder whose only entries are no
\* recognizable filenames.
C1_Witness ==
    /\ pc = "built"
    /\ \E f \in FolderColumns(matrix), g \in FolderColumns(matrix),
          r \in Range(matrix.index) :
           /\ matrix.data[f][r] = "yes"
           /\ folder_dict[g].keys # {}
           /\ KeysOf(folder_dict, g) = {}
           /\ matrix.data[g][r] = "no"

\* C2: the rows of the matrix are exactly the non-empty canonical keys of
\* the entries of all folders, each once, never the empty key, in ascending
\* order of str.
C2_RowsAreSortedKeys ==
    pc = "built" =>
        /\ Range(matrix.index)
               = UNION {KeysOf(folder_dict, f) : f \in Folders(folder_dict)}
        /\ "" \notin Range(matrix.index)
        /\ \A i \in 1..Len(matrix.index), j \in 1..Len(matrix.index) :
               i < j => StrLess(matrix.index[i], matrix.index[j])

\* C2 happens: two raw names of one folder collapse into the row "10 song",
\* which sorts before "2 other" as a string although 10 > 2.
C2_Witness ==
    /\ pc = "built"
    /\ \E f \in Folders(folder_dict) :
           {"10 Song.mp3", "10_song_alto.pdf", "2 Other.mp3"}
               \subseteq folder_dict[f].keys
    /\ matrix.index = <<"10 song", "2 other">>

C4_OClockRemoved ==
    \A d \in OClockDigits, p \in OClockPhrases, r \in OClockRests,
       e \in OClockExts :
        (cpc = "cleaned" /\ filename = OClockName(d, p, r, e))
            => key = IntToStr(ParseInt(d)) \o " " \o Lower(r)

\* C5: normalizing a non-empty key again, with ".pdf" appended, gives the
\* key.
C5_Idempotent == cpc = "recleaned" => rekey = key

\* C6: for every well-formed listing, create_file_matrix and then
\* filter_matrix end without an error, and the filtered matrix has no
\* column of the excluded folder.
C6_BuildAndFilterNeverFail ==
    WellFormed(folder_dict) =>
        /\ error = "none"
        /\ pc = "filtered" => ExcludedFolder \notin Range(matrix.columns)

\* C7: given a listing with a top-level value that is neither a folder nor
\* a leaf file, create_file_matrix signals an input-type error and returns
\* no matrix.
C7_MalformedIsATypeError ==
    (~WellFormed(folder_dict) /\ pc # "listing")
        => (pc = "failed" /\ error = "TypeError")

C9_LeavesAreIgnored ==
    pc = "built" =>
        /\ Len(matrix.columns) = 1 + Cardinality(Folders(folder_dict))
        /\ matrix.columns[1] = "Number"
        /\ Range(Tail(matrix.columns)) = Folders(folder_dict)
        /\ \A i \in 2..Len(matrix.columns), j \in 2..Len(matrix.columns) :
               i < j => StrLess(matrix.columns[i], matrix.columns[j])
        /\ \A t \in Leaves(folder_dict) :
               /\ t \notin Range(Tail(matrix.columns))
               /\ clean_filename(t) \in Range(matrix.index) =>
                      \E f \in Folders(folder_dict) :
                          clean_filename(t) \in KeysOf(folder_dict, f)

\* C9 happens: a leaf whose title normalizes to "3 tune" lies beside two
\* folders, which are the columns, and "3 tune" is no row.
C9_Witness ==
    /\ pc = "built"
    /\ "3 Tune.pdf" \in Leaves(folder_dict)
    /\ clean_filename("3 Tune.pdf") = "3 tune"
    /\ matrix.columns = <<"Number", "BASS", "alto sax">>
    /\ "3 tune" \notin Range(matrix.index)

\* C10: every row of the matrix create_file_matrix returns has "yes" in at
\* least one folder column.
C10_EveryRowHasAYes ==
    pc = "built" =>
        \A r \in Range(matrix.index) :
            \E f \in FolderColumns(matrix) : matrix.data[f][r] = "yes"

\* C10 happens: a matrix of two rows and two folder columns in which a "no"
\* occurs.
C10_Witness ==
    /\ pc = "built"
    /\ Len(matrix.index) >= 2
    /\ Cardinality(FolderColumns(matrix)) >= 2
    /\ \E f \in FolderColumns(matrix), r \in Range(matrix.index) :
           matrix.data[f][r] = "no"

===========================================================================
